---- MODULE Spec2Model ----
(***************************************************************************)
(* Outfit assignment engine of the FashionAdvisor server (server/index.js, *)
(* newer revision): the fingerprint function normalizeItemIds, the outfits *)
(* table and its deletion cascade, generateStylistRecommendations, the     *)
(* recommend endpoint, the weekly planner (planWeeklyOutfits with          *)
(* pickOutfit), the daily endpoint, and the interleavings of a deletion    *)
(* or of a second generation with a request in flight.                     *)
(*                                                                         *)
(* Item ids and fingerprints are strings; a date is the number of its      *)
(* calendar day; an outfit id (a uuid) is the number of its creation.      *)
(***************************************************************************)
EXTENDS Integers, Sequences, FiniteSets, TLC

VARIABLES
    wardrobe,            \* ids of the rows of the wardrobe table
    outfits,             \* rows of the outfits table, newest created_at first
    nextId,              \* the next value uuidv4() hands out
    pc,                  \* "idle", "weekly", "done", "failed", "recommended", "daily"
    status,              \* HTTP status of the response (0: none sent yet)
    dayEntries,          \* planWeeklyOutfits: the dayEntries argument
    dayIdx,              \* planWeeklyOutfits: position of the for-loop
    available,           \* planWeeklyOutfits: the pool
    existingOutfits,     \* planWeeklyOutfits: result.rows of its getDetailedOutfits()
    usedOutfitIds,       \* planWeeklyOutfits: outfit ids used in this horizon
    usedRestrictedItems, \* planWeeklyOutfits: consumed RESTRICTED item ids
    responses,           \* planWeeklyOutfits: the per-day assignments
    results,             \* results of the last generateStylistRecommendations call
    recCalls,            \* days arguments of the recommender calls of the request
    genFailed,           \* positions of the days for which generation gave no outfit
    fpIn,                \* fingerprint check: the two item-id lists
    fpOut,               \* fingerprint check: their keys (<<>> before the call)
    body,                \* the JSON body of the response
    caught,              \* message of the error the route's catch received
    snapshot,            \* result.rows of the last getDetailedOutfits of the request
    strategy,            \* POST /api/stylist/daily: the strategy of the request
    queried,             \* the request has sent a query to the database
    deletion,            \* the DELETE /api/wardrobe/items/:id in flight, step by step
    gen                  \* the concurrent generateStylistRecommendations calls

vars == <<wardrobe, outfits, nextId, pc, status, dayEntries, dayIdx, available,
          existingOutfits, usedOutfitIds, usedRestrictedItems, responses, results, recCalls,
          genFailed, fpIn, fpOut, body, caught, snapshot, strategy, queried,
          deletion, gen>>

storeVars == <<wardrobe, outfits, nextId>>
weeklyVars == <<dayEntries, dayIdx, available, existingOutfits, usedOutfitIds,
                usedRestrictedItems, responses, genFailed>>
fpVars == <<fpIn, fpOut>>
replyVars == <<body, caught>>
raceVars == <<deletion, gen>>

(***************************************************************************)
(* Bounds                                                                  *)
(***************************************************************************)
MaxOutfits == 3       \* rows the outfits table may hold
MaxDays == 3          \* days of one weekly request
MaxFpLen == 3         \* length of the lists of the fingerprint check
MaxDailyOutfits == 4  \* rows a daily request may leave in the outfits table

NullId == 0           \* outfitId = null, use_existing_outfit_id absent
FirstId == 1          \* the first value uuidv4() hands out

(***************************************************************************)
(* Sequences                                                               *)
(***************************************************************************)
Range(s) == {s[i] : i \in 1..Len(s)}

SeqsUpTo(S, n) == UNION {[1..k -> S] : k \in 0..n}

\* Mutant of RemoveAt: the element stays
RemoveAt_Keep(s, i) == s

\* available.splice(i, 1)
RemoveAt(s, i) == [j \in 1..(Len(s) - 1) |-> IF j < i THEN s[j] ELSE s[j + 1]]

(***************************************************************************)
(* Fingerprint: normalizeItemIds                                           *)
(***************************************************************************)
\* The item ids of the wardrobe and the ids of the fingerprint check. "" is a
\* falsy id (null, undefined or the empty string after JSON parsing).
\* "ghost1" is an id the recommender makes up: no wardrobe row has it.
ItemIds == {"top1", "bottom1", "shoe1"}
FpIds == {"", "a", "b"}

\* Rank of a string in the order of Array.prototype.sort() without comparator
\* (UTF-16 code units), over the strings of the model.
CodeUnitRank(s) ==
    CASE s = "" -> 0
      [] s = "a" -> 1
      [] s = "b" -> 2
      [] s = "bottom1" -> 3
      [] s = "ghost1" -> 4
      [] s = "shoe1" -> 5
      [] s = "top1" -> 6

\* Boolean(x) of an id
Truthy(x) == x # ""

\* items.filter(Boolean)
RECURSIVE FilterBoolean(_)
FilterBoolean(s) ==
    IF s = <<>> THEN <<>>
    ELSE IF Truthy(Head(s)) THEN <<Head(s)>> \o FilterBoolean(Tail(s))
         ELSE FilterBoolean(Tail(s))

RECURSIVE InsertSorted(_, _)
InsertSorted(x, s) ==
    IF s = <<>> THEN <<x>>
    ELSE IF CodeUnitRank(x) < CodeUnitRank(Head(s)) THEN <<x>> \o s
         ELSE <<Head(s)>> \o InsertSorted(x, Tail(s))

\* Array.prototype.sort() on strings
RECURSIVE Sort(_)
Sort(s) == IF s = <<>> THEN <<>> ELSE InsertSorted(Head(s), Sort(Tail(s)))

\* Array.prototype.join('|')
RECURSIVE Join(_)
Join(s) ==
    IF s = <<>> THEN ""
    ELSE IF Len(s) = 1 THEN Head(s)
         ELSE Head(s) \o "|" \o Join(Tail(s))

\* [...items].filter(Boolean).map(String).sort().join('|'). Every caller
\* passes an array (item_ids is NOT NULL, day.outfit is replaced by [] when it
\* is no array), and the ids are strings, which String() leaves alone.
normalizeItemIds(items) == Join(Sort(FilterBoolean(items)))

(***************************************************************************)
(* The store: wardrobe and outfits tables                                  *)
(***************************************************************************)
\* tags.broad_category of the wardrobe rows, as the tagging model writes it
BroadCategory(itemId) ==
    CASE itemId = "top1" -> "Tops"
      [] itemId = "bottom1" -> "Bottoms"
      [] itemId = "shoe1" -> "Shoes"

\* String.prototype.toLowerCase over the categories of the model
ToLowerCase(category) ==
    CASE category = "Tops" -> "tops"
      [] category = "Bottoms" -> "bottoms"
      [] category = "Shoes" -> "shoes"
      [] OTHER -> category

mapBroadCategoryToType(category) ==
    LET normalized == ToLowerCase(category)
    IN CASE normalized \in {"tops", "top", "sportswear/athleisure"} -> "top"
         [] normalized \in {"bottoms", "bottom"} -> "bottom"
         [] normalized \in {"one-piece", "dress"} -> "dress"
         [] normalized = "outerwear" -> "outerwear"
         [] normalized = "shoes" -> "shoes"
         [] OTHER -> "accessory"

\* Mutant of restrictedTypes: shoes are kept apart as well
restrictedTypes_WithShoes == {"top", "bottom", "dress", "shoes"}

restrictedTypes == {"top", "bottom", "dress"}

\* The entry fetchWardrobeItemsForOutfits puts in its map for a wardrobe row
WardrobeItem(itemId) ==
    [id |-> itemId, type |-> mapBroadCategoryToType(BroadCategory(itemId))]

\* (row.item_ids || []).map((itemId) => itemMap.get(itemId)).filter(Boolean):
\* ids without a wardrobe row are dropped
RECURSIVE ResolveItems(_, _)
ResolveItems(item_ids, wd) ==
    IF item_ids = <<>> THEN <<>>
    ELSE IF Head(item_ids) \in wd
         THEN <<WardrobeItem(Head(item_ids))>> \o ResolveItems(Tail(item_ids), wd)
         ELSE ResolveItems(Tail(item_ids), wd)

DetailedOutfit(row, wd) == [id |-> row.id, items |-> ResolveItems(row.item_ids, wd)]

\* getDetailedOutfits(): every row, ORDER BY created_at DESC
getDetailedOutfits(rows, wd) == [i \in 1..Len(rows) |-> DetailedOutfit(rows[i], wd)]

\* Mutant of getDetailedOutfitsById: the WHERE clause is lost and the first
\* row of the result is the newest outfit
getDetailedOutfitsById_Newest(rows, wd, outfitId) ==
    IF rows = <<>> THEN <<>> ELSE <<DetailedOutfit(rows[1], wd)>>

\* getDetailedOutfits([outfitId]): WHERE id = ANY($1)
RECURSIVE getDetailedOutfitsById(_, _, _)
getDetailedOutfitsById(rows, wd, outfitId) ==
    IF rows = <<>> THEN <<>>
    ELSE IF Head(rows).id = outfitId
         THEN <<DetailedOutfit(Head(rows), wd)>>
              \o getDetailedOutfitsById(Tail(rows), wd, outfitId)
         ELSE getDetailedOutfitsById(Tail(rows), wd, outfitId)

\* result.rows of the query of getDetailedOutfits([outfitId])
RECURSIVE RowsById(_, _)
RowsById(rows, outfitId) ==
    IF rows = <<>> THEN <<>>
    ELSE IF Head(rows).id = outfitId
         THEN <<Head(rows)>> \o RowsById(Tail(rows), outfitId)
         ELSE RowsById(Tail(rows), outfitId)

\* array_remove(item_ids, $1)
RECURSIVE array_remove(_, _)
array_remove(arr, x) ==
    IF arr = <<>> THEN <<>>
    ELSE IF Head(arr) = x THEN array_remove(Tail(arr), x)
         ELSE <<Head(arr)>> \o array_remove(Tail(arr), x)

\* array_length(item_ids, 1) IS NULL: PostgreSQL gives NULL, not 0, for an
\* array without elements
ArrayLengthIsNull(arr) == arr = <<>>

\* WHERE item_ids IS NULL OR array_length(item_ids, 1) = 0. item_ids is NOT
\* NULL, and a comparison of NULL with 0 is not true.
PruneCondition(row) ==
    ~ArrayLengthIsNull(row.item_ids) /\ Len(row.item_ids) = 0

RECURSIVE DeleteWhere(_)
DeleteWhere(rows) ==
    IF rows = <<>> THEN <<>>
    ELSE IF PruneCondition(Head(rows)) THEN DeleteWhere(Tail(rows))
         ELSE <<Head(rows)>> \o DeleteWhere(Tail(rows))

\* UPDATE outfits SET item_ids = array_remove(item_ids, $1) WHERE item_ids IS NOT NULL
UpdateRemove(rows, itemId) ==
    [i \in 1..Len(rows) |->
        [rows[i] EXCEPT !.item_ids = array_remove(rows[i].item_ids, itemId)]]

\* UPDATE outfits SET item_ids = array_remove(item_ids, $1), then the DELETE
CascadeDelete(rows, itemId) ==
    DeleteWhere([i \in 1..Len(rows) |->
        [rows[i] EXCEPT !.item_ids = array_remove(rows[i].item_ids, itemId)]])

(***************************************************************************)
(* The recommender and generateStylistRecommendations                      *)
(***************************************************************************)
\* Two calendar dates: enough for a horizon to list its days in ascending
\* order, in descending order, or twice.
Dates == {1, 2}
\* The item-id lists the recommender proposes: the empty outfit, a list and a
\* permutation of it, a list and the same set with a repeated id, outfits
\* that share a RESTRICTED or only a FLEXIBLE item with another, and an
\* outfit with an id that is not in the wardrobe.
OutfitLists ==
    {<<>>, <<"top1">>, <<"top1", "top1">>, <<"top1", "bottom1">>,
     <<"bottom1", "top1">>, <<"bottom1", "shoe1">>, <<"top1", "shoe1">>,
     <<"bottom1", "ghost1">>}
Pointers == {NullId, FirstId}

\* One day of the parsed response: the item ids of day.outfit and the pointer
\* day.use_existing_outfit_id. date, notes and the reasons travel through
\* untouched and decide nothing.
DayProposals == [outfit : OutfitLists, use_existing_outfit_id : Pointers]

\* The outcomes of openai.chat.completions.create for a request of some days:
\* the call throws, the message has no content, the content is no JSON, or it
\* parses to a list of days, at most one for each day asked for.
Responses(days) ==
    {[kind |-> k, days |-> <<>>] : k \in {"error", "nocontent", "invalid"}}
    \cup {[kind |-> "json", days |-> d] : d \in SeqsUpTo(DayProposals, Len(days))}

RowKeys(rows) == {normalizeItemIds(rows[i].item_ids) : i \in 1..Len(rows)}
RowIds(rows) == {rows[i].id : i \in 1..Len(rows)}

\* new Map(existingOutfits.map(o => [normalizeItemIds(o.item_ids), o.id])): of
\* the rows with one key the last row wins, and SELECT without ORDER BY returns
\* the rows in any order.
RECURSIVE MapsOver(_, _)
MapsOver(keys, rows) ==
    IF keys = {} THEN {[k \in {} |-> NullId]}
    ELSE LET key == CHOOSE k \in keys : TRUE
             ids == {rows[i].id : i \in {j \in 1..Len(rows) :
                                             normalizeItemIds(rows[j].item_ids) = key}}
         IN {[k \in DOMAIN m \cup {key} |-> IF k = key THEN id ELSE m[k]] :
                m \in MapsOver(keys \ {key}, rows), id \in ids}

ExistingMaps(rows) == MapsOver(RowKeys(rows), rows)

\* Mutant of DedupBranch: a key of existingMap is never reused
DedupBranch_NoReuse(day, existingMap) ==
    IF Len(day.outfit) > 0 THEN "insert" ELSE "none"

\* Mutant of DedupBranch: a pointer is believed, so a day that carries one
\* never inserts
DedupBranch_TrustPointer(day, existingMap) ==
    LET normalizedKey == normalizeItemIds(day.outfit)
    IN IF normalizedKey \in DOMAIN existingMap THEN "existing"
       ELSE IF day.use_existing_outfit_id # NullId THEN "none"
       ELSE IF Len(day.outfit) > 0 THEN "insert"
       ELSE "none"

\* The branch of the for-loop over outDays that decides outfitId:
\* "existing" (either of the first two branches), "insert" or "none".
DedupBranch(day, existingMap) ==
    LET normalizedKey == normalizeItemIds(day.outfit)
    IN IF day.use_existing_outfit_id # NullId /\ normalizedKey \in DOMAIN existingMap
       THEN "existing"
       ELSE IF normalizedKey \in DOMAIN existingMap THEN "existing"
       ELSE IF Len(day.outfit) > 0 THEN "insert"
       ELSE "none"

\* Mutant of InsertRow: the new row takes the place of the newest one
InsertRow_Replace(rows, row) == <<row>> \o (IF rows = <<>> THEN <<>> ELSE Tail(rows))

\* Mutant of InsertRow: the ids without a wardrobe row are left out
InsertRow_KnownOnly(rows, row) ==
    <<[row EXCEPT !.item_ids = SelectSeq(row.item_ids, LAMBDA x : x \in ItemIds)]>> \o rows

\* INSERT INTO outfits (id, item_ids, tags, notes, name): created_at is now(),
\* so the row is the first in ORDER BY created_at DESC
InsertRow(rows, row) == <<row>> \o rows

\* The for-loop over outDays: [outfits, nextId, results] after it.
RECURSIVE GenLoop(_, _, _, _, _)
GenLoop(outDays, existingMap, rows, nid, res) ==
    IF outDays = <<>> THEN [outfits |-> rows, nextId |-> nid, results |-> res]
    ELSE LET day == Head(outDays)
             normalizedKey == normalizeItemIds(day.outfit)
             branch == DedupBranch(day, existingMap)
         IN CASE branch = "existing" ->
                  GenLoop(Tail(outDays), existingMap, rows, nid,
                          Append(res, [outfitId |-> existingMap[normalizedKey],
                                       outfit |-> day.outfit]))
              [] branch = "insert" ->
                  GenLoop(Tail(outDays),
                          [k \in DOMAIN existingMap \cup {normalizedKey} |->
                              IF k = normalizedKey THEN nid ELSE existingMap[k]],
                          InsertRow(rows, [id |-> nid, item_ids |-> day.outfit]),
                          nid + 1,
                          Append(res, [outfitId |-> nid, outfit |-> day.outfit]))
              [] OTHER ->
                  GenLoop(Tail(outDays), existingMap, rows, nid,
                          Append(res, [outfitId |-> NullId, outfit |-> day.outfit]))

\* generateStylistRecommendations throws before the loop
Throws(resp) == resp.kind \in {"error", "nocontent", "invalid"}

\* generateStylistRecommendations for a response that parses
generateStylistRecommendations(rows, nid, existingMap, resp) ==
    GenLoop(resp.days, existingMap, rows, nid, <<>>)

(***************************************************************************)
(* planWeeklyOutfits and pickOutfit                                        *)
(***************************************************************************)
RestrictedIds(items) ==
    {items[i].id : i \in {j \in 1..Len(items) : items[j].type \in restrictedTypes}}

\* Mutant of Conflicts: the conflict test is lost
Conflicts_Never(outfit, usedRestricted) == FALSE

\* outfit.items?.some(item => restrictedTypes.has(type) && usedRestrictedItems.has(item.id))
Conflicts(outfit, usedRestricted) ==
    \E i \in 1..Len(outfit.items) :
        /\ outfit.items[i].type \in restrictedTypes
        /\ outfit.items[i].id \in usedRestricted

\* The two `continue` of the loop of pickOutfit
Skipped(outfit, usedIds, usedRestricted, allowRestrictedReuse) ==
    \/ outfit.id \in usedIds
    \/ ~allowRestrictedReuse /\ Conflicts(outfit, usedRestricted)

\* Mutant of pickOutfit: the scan keeps the last outfit that passes, not the first
pickOutfit_LastFit(pool, usedIds, usedRestricted, allowRestrictedReuse) ==
    LET ok == {i \in 1..Len(pool) :
                   ~Skipped(pool[i], usedIds, usedRestricted, allowRestrictedReuse)}
    IN IF ok = {} THEN 0 ELSE CHOOSE i \in ok : \A j \in ok : i >= j

\* pickOutfit: the index in the pool of the outfit it returns (and splices
\* out), 0 when it returns null
pickOutfit(pool, usedIds, usedRestricted, allowRestrictedReuse) ==
    LET ok == {i \in 1..Len(pool) :
                   ~Skipped(pool[i], usedIds, usedRestricted, allowRestrictedReuse)}
    IN IF ok = {} THEN 0 ELSE CHOOSE i \in ok : \A j \in ok : i <= j

\* The first call: pickOutfit(available, usedOutfitIds, usedRestrictedItems, restrictedTypes)
StrictPick == pickOutfit(available, usedOutfitIds, usedRestrictedItems, FALSE)

\* Mutant of RelaxedPick: the second call is the first one again
RelaxedPick_Strict == pickOutfit(available, usedOutfitIds, usedRestrictedItems, FALSE)

\* The second call: pickOutfit(available, usedOutfitIds, null, restrictedTypes, true)
RelaxedPick == pickOutfit(available, usedOutfitIds, {}, TRUE)

\* Mutant of TriesRelaxed: the relaxed call is made whatever strict match found
TriesRelaxed_Always(strict) == TRUE

\* if (!selected) before the relaxed call
TriesRelaxed(strict) == strict = 0

\* Mutant of TriesGeneration: generation is tried as soon as strict match fails
TriesGeneration_SkipRelaxed(strict, relaxed) == strict = 0

\* if (!selected) before the call of generateStylistRecommendations
TriesGeneration(strict, relaxed) == strict = 0 /\ relaxed = 0

normalizePlannerDayEntry(date) == [date |-> date]

\* Mutant of ConsumedAfter: only a top is recorded as consumed
ConsumedAfter_TopsOnly(consumed, selected) ==
    consumed \cup {selected.items[i].id :
                      i \in {j \in 1..Len(selected.items) : selected.items[j].type = "top"}}

\* usedRestrictedItems after the forEach over selected.items
ConsumedAfter(consumed, selected) == consumed \cup RestrictedIds(selected.items)

\* The if (selected) block at the end of one iteration; via names the step
\* that chose the outfit and is no field of the response.
Assign(selected, via) ==
    /\ usedOutfitIds' = usedOutfitIds \cup {selected.id}
    /\ usedRestrictedItems' = ConsumedAfter(usedRestrictedItems, selected)
    /\ responses' = Append(responses,
                           [date |-> dayEntries[dayIdx].date, outfitId |-> selected.id,
                            items |-> selected.items, via |-> via])

(***************************************************************************)
(* Responses of the routes                                                 *)
(***************************************************************************)
\* No response written yet
NoBody == [pending |-> TRUE]

\* No exception reached the catch of the route
NoError == "none"

\* error.message of a failed db.query
StoreError == "store error"

\* error.message of the exception generateStylistRecommendations throws
ErrorMessage(resp) ==
    CASE resp.kind = "error" -> "stylist model error"
      [] resp.kind = "nocontent" -> "No response from stylist model"
      [] resp.kind = "invalid" -> "Stylist response not valid JSON"

\* res.status(...).json({ message })
ErrorBody(message) == [message |-> message]

\* Mutant of WeeklyCatch: the days resolved before the error are returned
WeeklyCatch_Partial(message, resps) ==
    [days |-> [i \in 1..Len(resps) |-> [date |-> resps[i].date,
                                         outfitId |-> resps[i].outfitId]]]

\* catch (error) of the weekly route: the plan in the making is dropped
WeeklyCatch(message, resps) == ErrorBody(message)

formatOutfitForPlanner(outfit) == [id |-> outfit.id, items |-> outfit.items]

\* return { days: responses }: the entries planWeeklyOutfits pushed
PlanBody(resps) ==
    [days |-> [i \in 1..Len(resps) |->
                  [date |-> resps[i].date, outfitId |-> resps[i].outfitId,
                   outfit |-> formatOutfitForPlanner(
                                  [id |-> resps[i].outfitId, items |-> resps[i].items])]]]

\* formatOutfitForDaily of an outfit that is there (null otherwise)
formatOutfitForDaily(outfit) == [id |-> outfit.id, items |-> outfit.items]

\* outfits.filter((_, idx) => idx !== mainIndex)
RECURSIVE FilterOtherIndex(_, _)
FilterOtherIndex(list, mainIndex) ==
    IF list = <<>> THEN <<>>
    ELSE IF mainIndex = 1 THEN Tail(list)
         ELSE <<Head(list)>> \o FilterOtherIndex(Tail(list), mainIndex - 1)

\* (await getDetailedOutfits()).filter((o) => o.id !== generated.outfitId)
RECURSIVE FilterOtherId(_, _)
FilterOtherId(list, outfitId) ==
    IF list = <<>> THEN <<>>
    ELSE IF Head(list).id = outfitId THEN FilterOtherId(Tail(list), outfitId)
         ELSE <<Head(list)>> \o FilterOtherId(Tail(list), outfitId)

\* Mutant of SliceTwo: the list is not cut
SliceTwo_All(list) == list

\* .slice(0, 2)
SliceTwo(list) == IF Len(list) <= 2 THEN list ELSE SubSeq(list, 1, 2)

\* .map((outfit) => formatOutfitForDaily(outfit, ...)).filter(Boolean)
FormatAll(list) == [i \in 1..Len(list) |-> formatOutfitForDaily(list[i])]

\* The 200 body of the daily route
DailyBody(source, main, alternatives) ==
    [source |-> source, mainOutfit |-> formatOutfitForDaily(main),
     alternatives |-> FormatAll(alternatives)]

\* source of a response built from the saved outfits
SavedSource == "existing"

\* Mutant of NewSource: a generated outfit is reported as a saved one
NewSource_Saved == "existing"

\* source of a response built from a recommender call
NewSource == "new"

\* The strategies of a daily request: every value other than 'new' takes the
\* branch of 'existing', the default
Strategies == {"existing", "new"}

\* dayPayload.date: today
Today == 1

\* No deletion in flight
NoDeletion == [step |-> "idle", itemId |-> ""]

\* The two calls of generateStylistRecommendations that may overlap
Procs == {1, 2}

\* A call that has not started
IdleGen == [pc |-> "idle", existingMap |-> <<>>, results |-> <<>>]

(***************************************************************************)
(* State machine                                                           *)
(***************************************************************************)
Init ==
    /\ wardrobe = ItemIds
    /\ outfits = <<>>
    /\ nextId = FirstId
    /\ pc = "idle"
    /\ status = 0
    /\ dayEntries = <<>>
    /\ dayIdx = 0
    /\ available = <<>>
    /\ existingOutfits = <<>>
    /\ usedOutfitIds = {}
    /\ usedRestrictedItems = {}
    /\ responses = <<>>
    /\ results = <<>>
    /\ recCalls = <<>>
    /\ genFailed = {}
    /\ fpIn = <<>>
    /\ fpOut = <<>>
    /\ body = NoBody
    /\ caught = NoError
    /\ snapshot = <<>>
    /\ strategy = ""
    /\ queried = FALSE
    /\ deletion = NoDeletion
    /\ gen = [p \in Procs |-> IdleGen]

\* Mutant of Rejects: the test of days is lost
Rejects_Never(days) == FALSE

\* !Array.isArray(days) || days.length === 0; <<>> is the days of a body
\* without days[] and of one whose days[] is empty
Rejects(days) == days = <<>>

\* POST /api/stylist/recommend
Recommend(days, resp, existingMap) ==
    /\ pc = "idle"
    /\ pc' = "recommended"
    /\ IF Rejects(days)
       THEN /\ status' = 400
            /\ body' = ErrorBody("days[] is required")
            /\ caught' = NoError
            /\ queried' = FALSE
            /\ UNCHANGED <<outfits, nextId, results, recCalls>>
       ELSE /\ recCalls' = Append(recCalls, days)
            /\ queried' = TRUE
            /\ IF Throws(resp)
               THEN /\ status' = 500
                    /\ caught' = ErrorMessage(resp)
                    /\ body' = ErrorBody(ErrorMessage(resp))
                    /\ UNCHANGED <<outfits, nextId, results>>
               ELSE LET g == generateStylistRecommendations(outfits, nextId, existingMap, resp)
                    IN /\ Len(g.outfits) <= MaxOutfits
                       /\ outfits' = g.outfits
                       /\ nextId' = g.nextId
                       /\ results' = g.results
                       /\ status' = 200
                       /\ body' = [days |-> g.results, raw |-> resp.days]
                       /\ caught' = NoError
    /\ UNCHANGED <<wardrobe, weeklyVars, fpVars, snapshot, raceVars, strategy>>

\* DELETE /api/wardrobe/items/:id for an id of the wardrobe (404 otherwise)
DeleteItem(itemId) ==
    /\ pc = "idle"
    /\ itemId \in wardrobe
    /\ wardrobe' = wardrobe \ {itemId}
    /\ outfits' = CascadeDelete(outfits, itemId)
    /\ UNCHANGED <<nextId, pc, status, weeklyVars, results, recCalls, fpVars,
                   replyVars, snapshot, raceVars, strategy, queried>>

\* DELETE /api/wardrobe/items/:id statement by statement, for the requests
\* that run between its awaits. First the statements on the wardrobe row: the
\* SELECT of s3_key, the S3 delete and the DELETE of the row.
DeleteRow(itemId) ==
    /\ deletion = NoDeletion
    /\ itemId \in wardrobe
    /\ wardrobe' = wardrobe \ {itemId}
    /\ deletion' = [step |-> "row", itemId |-> itemId]
    /\ UNCHANGED <<outfits, nextId, pc, status, weeklyVars, results, recCalls, fpVars,
                   replyVars, snapshot, strategy, queried, gen>>

\* The UPDATE of the cascade
DeleteUpdate ==
    /\ deletion.step = "row"
    /\ outfits' = UpdateRemove(outfits, deletion.itemId)
    /\ deletion' = [deletion EXCEPT !.step = "update"]
    /\ UNCHANGED <<wardrobe, nextId, pc, status, weeklyVars, results, recCalls, fpVars,
                   replyVars, snapshot, strategy, queried, gen>>

\* The DELETE of the cascade and res.status(204). One deletion is followed
\* statement by statement; the deletions between requests are DeleteItem.
DeletePrune ==
    /\ deletion.step = "update"
    /\ outfits' = DeleteWhere(outfits)
    /\ deletion' = [deletion EXCEPT !.step = "done"]
    /\ UNCHANGED <<wardrobe, nextId, pc, status, weeklyVars, results, recCalls, fpVars,
                   replyVars, snapshot, strategy, queried, gen>>

\* Mutant of MapAtLoop: the loop looks the key up in the rows of the table as
\* they are when it runs
MapAtLoop_Fresh(selected, rows) == CHOOSE m \in ExistingMaps(rows) : TRUE

\* The existingMap the for-loop consults: the one built from the SELECT at the
\* start of the call, whatever the table holds by now
MapAtLoop(selected, rows) == selected

\* POST /api/stylist/recommend for one day, running beside another: the call
\* of generateStylistRecommendations up to its await of the recommender
GenSelect(p, existingMap) ==
    /\ gen[p].pc = "idle"
    /\ gen' = [gen EXCEPT ![p] = [pc |-> "called", existingMap |-> existingMap,
                                  results |-> <<>>]]
    /\ UNCHANGED <<storeVars, pc, status, weeklyVars, results, recCalls, fpVars,
                   replyVars, snapshot, strategy, queried, deletion>>

\* The recommender has answered: the rest of the call and res.json or the
\* catch of the route. A response of one day makes at most one INSERT, so no
\* await of the loop is left for another request to run in.
GenFinish(p, resp) ==
    /\ gen[p].pc = "called"
    /\ IF Throws(resp)
       THEN /\ gen' = [gen EXCEPT ![p].pc = "failed"]
            /\ UNCHANGED <<outfits, nextId>>
       ELSE LET g == generateStylistRecommendations(
                         outfits, nextId, MapAtLoop(gen[p].existingMap, outfits), resp)
            IN /\ Len(g.outfits) <= MaxOutfits
               /\ outfits' = g.outfits
               /\ nextId' = g.nextId
               /\ gen' = [gen EXCEPT ![p].pc = "done", ![p].results = g.results]
    /\ UNCHANGED <<wardrobe, pc, status, weeklyVars, results, recCalls, fpVars,
                   replyVars, snapshot, strategy, queried, deletion>>

\* Both overlapping requests are answered; the next pair starts afresh
GenReturn ==
    /\ \A p \in Procs : gen[p].pc \in {"done", "failed"}
    /\ gen' = [p \in Procs |-> IdleGen]
    /\ UNCHANGED <<storeVars, pc, status, weeklyVars, results, recCalls, fpVars,
                   replyVars, snapshot, strategy, queried, deletion>>

\* POST /api/stylist/weekly up to the first iteration of planWeeklyOutfits.
\* A request without days[] builds the seven ascending dates from startDate,
\* which is one of the lists days ranges over.
WeeklyRequest(days) ==
    /\ pc = "idle"
    /\ days # <<>>
    /\ pc' = "weekly"
    /\ dayEntries' = [i \in 1..Len(days) |-> normalizePlannerDayEntry(days[i])]
    /\ dayIdx' = 1
    /\ snapshot' = outfits
    /\ existingOutfits' = outfits
    /\ available' = getDetailedOutfits(outfits, wardrobe)
    /\ usedOutfitIds' = {}
    /\ usedRestrictedItems' = {}
    /\ responses' = <<>>
    /\ genFailed' = {}
    /\ queried' = TRUE
    /\ UNCHANGED <<storeVars, status, results, recCalls, fpVars, replyVars, raceVars,
                   strategy>>

\* One iteration of the for-loop in which strict match finds an outfit
WeeklyStrict ==
    /\ pc = "weekly"
    /\ dayIdx <= Len(dayEntries)
    /\ StrictPick # 0
    /\ Assign(available[StrictPick], "strict")
    /\ available' = RemoveAt(available, StrictPick)
    /\ dayIdx' = dayIdx + 1
    /\ UNCHANGED <<storeVars, pc, status, dayEntries, existingOutfits, results, recCalls,
                   genFailed, fpVars, replyVars, snapshot, raceVars, strategy, queried>>

\* One iteration in which relaxed match finds an outfit
WeeklyRelaxed ==
    /\ pc = "weekly"
    /\ dayIdx <= Len(dayEntries)
    /\ TriesRelaxed(StrictPick)
    /\ RelaxedPick # 0
    /\ Assign(available[RelaxedPick], "relaxed")
    /\ available' = RemoveAt(available, RelaxedPick)
    /\ dayIdx' = dayIdx + 1
    /\ UNCHANGED <<storeVars, pc, status, dayEntries, existingOutfits, results, recCalls,
                   genFailed, fpVars, replyVars, snapshot, raceVars, strategy, queried>>

\* Mutant of AfterAbort: the rows the request inserted are taken back
AfterAbort_Rollback(rows, startRows) == startRows

\* The outfits table after an exception has left planWeeklyOutfits: every
\* INSERT was a statement of its own on the pool, committed when it returned,
\* and the catch of the route sends no statement
AfterAbort(rows, startRows) == rows

\* One iteration that calls generateStylistRecommendations for the day. An
\* exception leaves planWeeklyOutfits and the route answers 500.
WeeklyGenerate(resp, existingMap) ==
    /\ pc = "weekly"
    /\ dayIdx <= Len(dayEntries)
    /\ TriesGeneration(StrictPick, RelaxedPick)
    /\ recCalls' = Append(recCalls, <<dayEntries[dayIdx].date>>)
    /\ IF Throws(resp)
       THEN /\ pc' = "failed"
            /\ status' = 500
            /\ caught' = ErrorMessage(resp)
            /\ body' = WeeklyCatch(ErrorMessage(resp), responses)
            /\ genFailed' = genFailed \cup {dayIdx}
            /\ outfits' = AfterAbort(outfits, existingOutfits)
            /\ UNCHANGED <<wardrobe, nextId, dayEntries, dayIdx, available, existingOutfits,
                           usedOutfitIds, usedRestrictedItems, responses, results,
                           snapshot>>
       ELSE LET g == generateStylistRecommendations(outfits, nextId, existingMap, resp)
                reads == g.results # <<>> /\ g.results[1].outfitId # NullId
                detailed == IF reads
                            THEN getDetailedOutfitsById(g.outfits, wardrobe,
                                                        g.results[1].outfitId)
                            ELSE <<>>
            IN /\ Len(g.outfits) <= MaxOutfits
               /\ outfits' = g.outfits
               /\ nextId' = g.nextId
               /\ results' = g.results
               /\ snapshot' = IF reads
                              THEN RowsById(g.outfits, g.results[1].outfitId)
                              ELSE snapshot
               /\ IF detailed # <<>>
                  THEN /\ Assign(detailed[1], "generated")
                       /\ UNCHANGED genFailed
                  ELSE /\ genFailed' = genFailed \cup {dayIdx}
                       /\ UNCHANGED <<usedOutfitIds, usedRestrictedItems, responses>>
               /\ dayIdx' = dayIdx + 1
               /\ UNCHANGED <<wardrobe, pc, status, dayEntries, available, existingOutfits,
                               replyVars>>
    /\ UNCHANGED <<fpVars, raceVars, strategy, queried>>

\* POST /api/stylist/daily. mainIndex is Math.floor(Math.random() * outfits.length).
Daily(strat, mainIndex, resp, existingMap) ==
    /\ pc = "idle"
    /\ pc' = "daily"
    /\ strategy' = strat
    /\ queried' = TRUE
    /\ LET saved == getDetailedOutfits(outfits, wardrobe)
       IN IF strat # "new" /\ Len(saved) > 0
          THEN /\ mainIndex \in 1..Len(saved)
               /\ status' = 200
               /\ body' = DailyBody(SavedSource, saved[mainIndex],
                                    SliceTwo(FilterOtherIndex(saved, mainIndex)))
               /\ caught' = NoError
               /\ snapshot' = outfits
               /\ UNCHANGED <<outfits, nextId, results, recCalls>>
          ELSE /\ mainIndex = 1
               /\ recCalls' = Append(recCalls, <<Today>>)
               /\ IF Throws(resp)
                  THEN /\ status' = 500
                       /\ caught' = ErrorMessage(resp)
                       /\ body' = ErrorBody(ErrorMessage(resp))
                       /\ snapshot' = outfits
                       /\ UNCHANGED <<outfits, nextId, results>>
                  ELSE LET g == generateStylistRecommendations(outfits, nextId,
                                                               existingMap, resp)
                           generated == g.results[1]
                           generatedOutfitList ==
                               getDetailedOutfitsById(g.outfits, wardrobe, generated.outfitId)
                           remainingAlternatives ==
                               FilterOtherId(getDetailedOutfits(g.outfits, wardrobe),
                                             generated.outfitId)
                       IN /\ Len(g.outfits) <= MaxDailyOutfits
                          /\ outfits' = g.outfits
                          /\ nextId' = g.nextId
                          /\ results' = g.results
                          /\ caught' = NoError
                          /\ IF g.results = <<>>
                             THEN /\ status' = 502
                                  /\ body' = ErrorBody("Unable to generate outfit right now")
                                  /\ snapshot' = outfits
                             ELSE IF generated.outfitId = NullId
                             THEN /\ status' = 502
                                  /\ body' = ErrorBody("No outfit ID generated")
                                  /\ snapshot' = outfits
                             ELSE IF generatedOutfitList = <<>>
                             THEN /\ status' = 502
                                  /\ body' = ErrorBody("Unable to resolve generated outfit")
                                  /\ snapshot' = g.outfits
                             ELSE /\ status' = 200
                                  /\ body' = DailyBody(NewSource, generatedOutfitList[1],
                                                       SliceTwo(remainingAlternatives))
                                  /\ snapshot' = g.outfits
    /\ UNCHANGED <<wardrobe, weeklyVars, fpVars, raceVars>>

\* POST /api/stylist/weekly whose first getDetailedOutfits() rejects
WeeklySnapshotFailure(days) ==
    /\ pc = "idle"
    /\ days # <<>>
    /\ pc' = "failed"
    /\ status' = 500
    /\ caught' = StoreError
    /\ body' = WeeklyCatch(StoreError, <<>>)
    /\ dayEntries' = [i \in 1..Len(days) |-> normalizePlannerDayEntry(days[i])]
    /\ dayIdx' = 1
    /\ queried' = TRUE
    /\ UNCHANGED <<storeVars, available, existingOutfits, usedOutfitIds,
                   usedRestrictedItems, responses, genFailed, results, recCalls, fpVars,
                   snapshot, raceVars, strategy>>

\* The awaits of an iteration that goes to generation at which a db.query may
\* reject: the SELECTs before the recommender call, the INSERT of the loop,
\* the getDetailedOutfits([outfitId]) after it. loadWardrobeForStylist
\* rejects when its query of wardrobe and its fallback query of
\* wardrobe_items both do; a rejection of the first alone stays inside it.
FailurePoints == {"select", "insert", "detail"}

\* One iteration that calls generateStylistRecommendations and in which a
\* db.query rejects
WeeklyStoreFailure(point, resp, existingMap) ==
    /\ pc = "weekly"
    /\ dayIdx <= Len(dayEntries)
    /\ TriesGeneration(StrictPick, RelaxedPick)
    /\ pc' = "failed"
    /\ status' = 500
    /\ caught' = StoreError
    /\ body' = WeeklyCatch(StoreError, responses)
    /\ IF point = "select"
       THEN /\ outfits' = AfterAbort(outfits, existingOutfits)
            /\ UNCHANGED <<nextId, results, recCalls>>
       ELSE /\ ~Throws(resp)
            /\ resp.days # <<>>
            /\ recCalls' = Append(recCalls, <<dayEntries[dayIdx].date>>)
            /\ IF point = "insert"
               THEN /\ DedupBranch(resp.days[1], existingMap) = "insert"
                    /\ outfits' = AfterAbort(outfits, existingOutfits)
                    /\ UNCHANGED <<nextId, results>>
               ELSE LET g == generateStylistRecommendations(outfits, nextId,
                                                            existingMap, resp)
                    IN /\ g.results[1].outfitId # NullId
                       /\ Len(g.outfits) <= MaxOutfits
                       /\ outfits' = AfterAbort(g.outfits, existingOutfits)
                       /\ nextId' = g.nextId
                       /\ results' = g.results
    /\ UNCHANGED <<wardrobe, weeklyVars, fpVars, snapshot, raceVars, strategy, queried>>

\* return { days: responses } and res.json(plan)
WeeklyRespond ==
    /\ pc = "weekly"
    /\ dayIdx > Len(dayEntries)
    /\ pc' = "done"
    /\ status' = 200
    /\ body' = PlanBody(responses)
    /\ UNCHANGED <<storeVars, weeklyVars, results, recCalls, fpVars, caught, snapshot,
                   raceVars, strategy, queried>>

\* The request is over; the next one starts with fresh locals
Reset ==
    /\ pc \in {"done", "failed", "recommended", "daily"}
    /\ pc' = "idle"
    /\ status' = 0
    /\ dayEntries' = <<>>
    /\ dayIdx' = 0
    /\ available' = <<>>
    /\ existingOutfits' = <<>>
    /\ usedOutfitIds' = {}
    /\ usedRestrictedItems' = {}
    /\ responses' = <<>>
    /\ results' = <<>>
    /\ recCalls' = <<>>
    /\ genFailed' = {}
    /\ body' = NoBody
    /\ caught' = NoError
    /\ snapshot' = <<>>
    /\ strategy' = ""
    /\ queried' = FALSE
    /\ UNCHANGED <<storeVars, fpVars, raceVars>>

RecommendDays == {<<>>, <<1>>, <<1, 2>>}
WeeklyDays == SeqsUpTo(Dates, MaxDays) \ {<<>>}

\* The requests and steps, each with its inputs: the request body, the
\* outcome of the recommender call and the row order of the SELECT.
RecommendRequest ==
    /\ pc = "idle"
    /\ \E days \in RecommendDays :
           \E resp \in Responses(days), m \in ExistingMaps(outfits) :
               Recommend(days, resp, m)

DeleteItemRequest == pc = "idle" /\ \E itemId \in wardrobe : DeleteItem(itemId)

GenSelectStep ==
    \E p \in Procs :
        gen[p].pc = "idle" /\ \E m \in ExistingMaps(outfits) : GenSelect(p, m)

GenFinishStep ==
    \E p \in Procs :
        gen[p].pc = "called" /\ \E resp \in Responses(<<Today>>) : GenFinish(p, resp)

\* POST /api/stylist/recommend of another client, for one day, that arrives
\* when a weekly request has just read its snapshot
OtherRecommendStart ==
    /\ pc = "weekly"
    /\ dayIdx = 1
    /\ gen[1].pc = "idle"
    /\ \E m \in ExistingMaps(outfits) : GenSelect(1, m)

OtherRecommendFinish ==
    gen[1].pc = "called" /\ \E resp \in Responses(<<Today>>) : GenFinish(1, resp)

DeleteRowStep == deletion = NoDeletion /\ \E itemId \in wardrobe : DeleteRow(itemId)

WeeklyRequestStart == pc = "idle" /\ \E days \in WeeklyDays : WeeklyRequest(days)

\* A daily request that answers from the saved outfits makes no recommender call
DailyRequest ==
    /\ pc = "idle"
    /\ \E strat \in Strategies :
           IF strat # "new" /\ outfits # <<>>
           THEN \E mainIndex \in 1..Len(outfits) :
                    Daily(strat, mainIndex, [kind |-> "error", days |-> <<>>], <<>>)
           ELSE \E resp \in Responses(<<Today>>), m \in ExistingMaps(outfits) :
                    Daily(strat, 1, resp, m)

WeeklySnapshotFailureStep ==
    pc = "idle" /\ \E days \in WeeklyDays : WeeklySnapshotFailure(days)

\* A failure of the SELECTs comes before any recommender call
WeeklyStoreFailureStep ==
    /\ pc = "weekly"
    /\ dayIdx <= Len(dayEntries)
    /\ TriesGeneration(StrictPick, RelaxedPick)
    /\ \/ WeeklyStoreFailure("select", [kind |-> "error", days |-> <<>>], <<>>)
       \/ \E point \in FailurePoints \ {"select"} :
              \E resp \in Responses(<<dayEntries[dayIdx]>>), m \in ExistingMaps(outfits) :
                  WeeklyStoreFailure(point, resp, m)

WeeklyGenerateStep ==
    /\ pc = "weekly"
    /\ dayIdx <= Len(dayEntries)
    /\ TriesGeneration(StrictPick, RelaxedPick)
    /\ \E resp \in Responses(<<dayEntries[dayIdx]>>), m \in ExistingMaps(outfits) :
           WeeklyGenerate(resp, m)

Next ==
    \/ RecommendRequest
    \/ DeleteItemRequest
    \/ WeeklyRequestStart
    \/ WeeklyStrict
    \/ WeeklyRelaxed
    \/ WeeklyGenerateStep
    \/ WeeklyRespond
    \/ DailyRequest
    \/ WeeklySnapshotFailureStep
    \/ WeeklyStoreFailureStep
    \/ DeleteRowStep
    \/ DeleteUpdate
    \/ DeletePrune
    \/ GenSelectStep
    \/ GenFinishStep
    \/ GenReturn
    \/ Reset

Spec == Init /\ [][Next]_vars

\* Two clients whose generation requests overlap
NextGenRace ==
    \/ GenSelectStep
    \/ GenFinishStep
    \/ GenReturn

SpecGenRace == Init /\ [][NextGenRace]_vars

\* The first weekly request, over the empty outfits table, beside the
\* recommend request of another client
NextSnapshot ==
    \/ WeeklyRequestStart
    \/ WeeklyGenerateStep
    \/ WeeklyRespond
    \/ OtherRecommendStart
    \/ OtherRecommendFinish

SpecSnapshot == Init /\ [][NextSnapshot]_vars

\* A deletion, statement by statement, beside the daily requests
NextDeleteRace ==
    \/ DailyRequest
    \/ DeleteRowStep
    \/ DeleteUpdate
    \/ DeletePrune
    \/ Reset

SpecDeleteRace == Init /\ [][NextDeleteRace]_vars

\* The weekly planner with a database that may reject a query, over the store
\* that its own generation fills
NextFaults ==
    \/ WeeklyRequestStart
    \/ WeeklyStrict
    \/ WeeklyRelaxed
    \/ WeeklyGenerateStep
    \/ WeeklyRespond
    \/ WeeklySnapshotFailureStep
    \/ WeeklyStoreFailureStep
    \/ Reset

SpecFaults == Init /\ [][NextFaults]_vars

\* The daily endpoint over the store that daily requests fill
NextDaily ==
    \/ DailyRequest
    \/ Reset

SpecDaily == Init /\ [][NextDaily]_vars

\* The daily endpoint over a store that deletions edit too
NextDailyStore ==
    \/ DailyRequest
    \/ DeleteItemRequest
    \/ Reset

SpecDailyStore == Init /\ [][NextDailyStore]_vars

\* The recommend endpoint over the store that its requests fill
NextRecommend ==
    \/ RecommendRequest
    \/ Reset

SpecRecommend == Init /\ [][NextRecommend]_vars

\* The three endpoints that plan outfits, one request after another
NextRequests ==
    \/ RecommendRequest
    \/ DailyRequest
    \/ WeeklyRequestStart
    \/ WeeklyStrict
    \/ WeeklyRelaxed
    \/ WeeklyGenerateStep
    \/ WeeklyRespond
    \/ Reset

SpecRequests == Init /\ [][NextRequests]_vars

\* The store on its own: recommend requests and wardrobe deletions
NextStore ==
    \/ RecommendRequest
    \/ DeleteItemRequest
    \/ Reset

SpecStore == Init /\ [][NextStore]_vars

\* The planner over the outfits that recommend requests have stored
NextPlanner ==
    \/ RecommendRequest
    \/ WeeklyRequestStart
    \/ WeeklyStrict
    \/ WeeklyRelaxed
    \/ WeeklyGenerateStep
    \/ WeeklyRespond
    \/ Reset

SpecPlanner == Init /\ [][NextPlanner]_vars

(***************************************************************************)
(* The fingerprint function on its own: two item-id lists and their keys   *)
(***************************************************************************)
FpLists == SeqsUpTo(FpIds, MaxFpLen)

InitFp ==
    /\ wardrobe = ItemIds
    /\ outfits = <<>>
    /\ nextId = FirstId
    /\ pc = "idle"
    /\ status = 0
    /\ dayEntries = <<>>
    /\ dayIdx = 0
    /\ available = <<>>
    /\ existingOutfits = <<>>
    /\ usedOutfitIds = {}
    /\ usedRestrictedItems = {}
    /\ responses = <<>>
    /\ results = <<>>
    /\ recCalls = <<>>
    /\ genFailed = {}
    /\ fpIn \in FpLists \X FpLists
    /\ fpOut = <<>>
    /\ body = NoBody
    /\ caught = NoError
    /\ snapshot = <<>>
    /\ strategy = ""
    /\ queried = FALSE
    /\ deletion = NoDeletion
    /\ gen = [p \in Procs |-> IdleGen]

Canonicalize ==
    /\ fpOut = <<>>
    /\ fpOut' = <<normalizeItemIds(fpIn[1]), normalizeItemIds(fpIn[2])>>
    /\ UNCHANGED <<storeVars, pc, status, weeklyVars, results, recCalls, fpIn,
                   replyVars, snapshot, raceVars, strategy, queried>>

SpecFp == InitFp /\ [][Canonicalize]_vars

(***************************************************************************)
(* Properties                                                              *)
(***************************************************************************)
Last(s) == s[Len(s)]

\* The item-id set a list describes
ItemSet(items) == {x \in Range(items) : Truthy(x)}

\* C1: two item-id lists that describe the same set, whatever their order and
\* their repetitions, get the identical key.
FingerprintDeterminism ==
    (fpOut # <<>> /\ ItemSet(fpIn[1]) = ItemSet(fpIn[2])) => fpOut[1] = fpOut[2]

\* The RESTRICTED item ids of the outfit assigned to the i-th resolved day
RestrictedOf(i) == RestrictedIds(responses[i].items)

\* An outfit of the pool that strict match may take
Eligible(outfit) ==
    /\ outfit.id \notin usedOutfitIds
    /\ RestrictedIds(outfit.items) \cap usedRestrictedItems = {}

\* This step of planWeeklyOutfits resolves a day by the named path
Resolves(via) ==
    /\ pc = "weekly"
    /\ Len(responses') = Len(responses) + 1
    /\ Last(responses').via = via

\* C2: two days of one weekly plan that strict match resolved have disjoint
\* RESTRICTED item-id sets.
NoRepeat ==
    \A i, j \in 1..Len(responses) :
        (i < j /\ responses[i].via = "strict" /\ responses[j].via = "strict")
            => RestrictedOf(i) \cap RestrictedOf(j) = {}

\* C2 witness: a finished plan with two strict days that both hold RESTRICTED items
NoRepeatWitness ==
    /\ pc = "done"
    /\ \E i, j \in 1..Len(responses) :
           /\ i < j
           /\ responses[i].via = "strict" /\ responses[j].via = "strict"
           /\ RestrictedOf(i) # {} /\ RestrictedOf(j) # {}

\* C3: when the recommender proposes an item-set, the days of the call that
\* propose it resolve to one outfit id, a record that already holds the set is
\* the one they resolve to, and no second record for the set is created.
DedupProperty ==
    [][(pc = "idle" /\ pc' = "recommended" /\ status' = 200) =>
          \A i \in 1..Len(results') :
              LET S == ItemSet(results'[i].outfit)
                  old == {k \in 1..Len(outfits) : ItemSet(outfits[k].item_ids) = S}
                  new == {k \in 1..Len(outfits') :
                              /\ outfits'[k].id >= nextId
                              /\ ItemSet(outfits'[k].item_ids) = S}
              IN S # {} =>
                    /\ \A j \in 1..Len(results') :
                           ItemSet(results'[j].outfit) = S
                               => results'[j].outfitId = results'[i].outfitId
                    /\ \A k \in old : Cardinality(old) = 1
                                         => results'[i].outfitId = outfits[k].id
                    /\ Cardinality(new) <= (IF old = {} THEN 1 ELSE 0)]_vars

\* C4: when generation gives no outfit for exactly one day of a weekly
\* horizon of full length, the request succeeds and its plan holds every
\* other day.
PartialPlan ==
    (/\ pc \in {"done", "failed"}
     /\ Len(dayEntries) = MaxDays
     /\ Cardinality(genFailed) = 1) =>
        /\ pc = "done"
        /\ status = 200
        /\ Len(responses) = Len(dayEntries) - 1

\* C5: no two records of the outfits table that hold items have the same
\* fingerprint.
UniqueFingerprint ==
    \A i, j \in 1..Len(outfits) :
        (i < j /\ outfits[i].item_ids # <<>> /\ outfits[j].item_ids # <<>>)
            => normalizeItemIds(outfits[i].item_ids) # normalizeItemIds(outfits[j].item_ids)

\* C6: the days of a horizon are processed in ascending order of their dates,
\* whatever their order in the request: a processed day is not later than any
\* day processed after it.
AscendingDateOrder ==
    \A i, j \in 1..Len(dayEntries) :
        (i < dayIdx /\ i < j) => dayEntries[i].date <= dayEntries[j].date

\* C7: strict match takes the first outfit of the pool, in snapshot order, that
\* is unused and whose RESTRICTED items are all unconsumed, and removes it from
\* the pool.
FirstFit ==
    [][Resolves("strict") =>
          \E k \in 1..Len(available) :
              /\ Eligible(available[k])
              /\ \A m \in 1..(k - 1) : ~Eligible(available[m])
              /\ Last(responses').outfitId = available[k].id
              /\ available' = RemoveAt(available, k)]_vars

\* Position of an outfit in the snapshot the plan started from
SnapshotPos(outfitId) == CHOOSE k \in 1..Len(outfits) : outfits[k].id = outfitId

\* C7 witness: strict match passed over an earlier outfit of the snapshot that
\* is still in the pool.
FirstFitWitness ==
    /\ pc = "weekly"
    /\ recCalls = <<>>
    /\ \E i \in 1..Len(responses), k \in 1..Len(available) :
           /\ responses[i].via = "strict"
           /\ SnapshotPos(available[k].id) < SnapshotPos(responses[i].outfitId)

\* C8: relaxed match resolves a day only when no outfit of the pool passes
\* strict match, and the outfit it takes is in the pool and unused so far.
RelaxedAfterStrict ==
    [][Resolves("relaxed") =>
          /\ \A k \in 1..Len(available) : ~Eligible(available[k])
          /\ Last(responses').outfitId \notin usedOutfitIds
          /\ \E k \in 1..Len(available) :
                 /\ available[k].id = Last(responses').outfitId
                 /\ available' = RemoveAt(available, k)]_vars

\* C8 witness: a day resolved by relaxed match whose outfit shares a
\* RESTRICTED item with the outfit of an earlier day.
RelaxedWitness ==
    \E i, j \in 1..Len(responses) :
        /\ i < j
        /\ responses[j].via = "relaxed"
        /\ RestrictedOf(i) \cap RestrictedOf(j) # {}

\* C9: a weekly plan calls the recommender only when the pool holds no unused
\* outfit, and then for the single day being processed.
GenerationLast ==
    [][(pc = "weekly" /\ recCalls' # recCalls) =>
          /\ \A k \in 1..Len(available) : available[k].id \in usedOutfitIds
          /\ recCalls' = Append(recCalls, <<dayEntries[dayIdx].date>>)]_vars

\* C9 witness: a plan whose first day came from history and a later day from
\* the recommender.
GenerationWitness ==
    /\ pc = "done"
    /\ \E i, j \in 1..Len(responses) :
           /\ i < j
           /\ responses[i].via \in {"strict", "relaxed"}
           /\ responses[j].via = "generated"

\* C10: the outfit of every resolved day is in the used set and its
\* RESTRICTED item ids are consumed, and an outfit taken by strict match shares
\* no RESTRICTED item with the outfit of an earlier day.
ForwardOnly ==
    /\ \A i \in 1..Len(responses) :
           /\ responses[i].outfitId \in usedOutfitIds
           /\ RestrictedOf(i) \subseteq usedRestrictedItems
    /\ \A i, j \in 1..Len(responses) :
           (i < j /\ responses[j].via = "strict")
               => RestrictedOf(i) \cap RestrictedOf(j) = {}

\* C10 witness: a plan with a strict day after a day that consumed items, and
\* a day resolved by relaxed match or generation that consumed items too.
ForwardOnlyWitness ==
    /\ \E i, j \in 1..Len(responses) :
           /\ i < j
           /\ responses[j].via = "strict"
           /\ RestrictedOf(i) # {} /\ RestrictedOf(j) # {}
    /\ \E k \in 1..Len(responses) :
           /\ responses[k].via \in {"relaxed", "generated"}
           /\ RestrictedOf(k) # {}

\* The days of the horizon the loop is through with, and those among them
\* that got an outfit, by position
Processed == (1..(dayIdx - 1)) \cup genFailed
Kept == Processed \ genFailed
NthKept(i) == CHOOSE k \in Kept : Cardinality({m \in Kept : m < k}) = i - 1

\* C11: the plan holds one assignment for each processed day that got an
\* outfit, with the date of that day and in processing order; a day that
\* strict match, relaxed match and generation all left without an outfit is
\* absent, and the request then still answers 200 with the plan of the others.
WeeklyShape ==
    pc \in {"weekly", "done", "failed"} =>
        /\ Len(responses) = Cardinality(Kept)
        /\ \A i \in 1..Len(responses) : responses[i].date = dayEntries[NthKept(i)].date
        /\ (pc # "weekly" /\ genFailed # {}) =>
               /\ pc = "done"
               /\ status = 200
               /\ body = PlanBody(responses)

\* The store of the scenario: the single record o1 = [top1, bottom1]
ScenarioStore ==
    /\ wardrobe = ItemIds
    /\ Len(outfits) = 1
    /\ outfits[1].item_ids = <<"top1", "bottom1">>

\* C12: in a 3-day plan over the wardrobe {top1, bottom1, shoe1} and the
\* single outfit o1 = [top1, bottom1], day 1 gets o1 by strict match; days 2
\* and 3 call the recommender, and when it proposes [top1, bottom1] the day
\* gets the id o1 and the store still holds the one record.
EndToEnd ==
    [][(pc = "weekly" /\ ScenarioStore /\ Len(dayEntries) = 3 /\ dayIdx <= 3) =>
          /\ (dayIdx = 1 /\ available # <<>>) =>
                 /\ Resolves("strict")
                 /\ Last(responses').outfitId = outfits[1].id
          /\ (dayIdx > 1 /\ responses # <<>> /\ responses[1].via = "strict") =>
                 /\ recCalls' = Append(recCalls, <<dayEntries[dayIdx].date>>)
                 /\ (/\ pc' = "weekly"
                     /\ results' # <<>>
                     /\ results'[1].outfit = <<"top1", "bottom1">>) =>
                        /\ Len(responses') = Len(responses) + 1
                        /\ Last(responses').outfitId = outfits[1].id
                        /\ outfits' = outfits]_vars

\* C12 witness: the finished plan of the scenario, all three days on o1
EndToEndWitness ==
    /\ pc = "done"
    /\ ScenarioStore
    /\ Len(responses) = 3
    /\ responses[1].via = "strict"
    /\ responses[2].via = "generated" /\ responses[3].via = "generated"
    /\ \A i \in 1..3 : responses[i].outfitId = outfits[1].id
    /\ results # <<>> /\ results[1].outfit = <<"top1", "bottom1">>

\* This step is a daily request answered from start to end
DailyStep == pc = "idle" /\ pc' = "daily"

\* A formatted outfit is a record of the rows, with its items resolved
IsRecordOf(formatted, rows) ==
    \E k \in 1..Len(rows) :
        /\ rows[k].id = formatted.id
        /\ formatted.items = ResolveItems(rows[k].item_ids, wardrobe)

Min(a, b) == IF a <= b THEN a ELSE b

\* C13: a daily request of strategy 'existing' over n > 0 saved outfits
\* answers source "existing", a main outfit that is one of the n records, and
\* min(2, n - 1) alternatives that are records too, pairwise distinct and
\* none of them the main outfit.
DailyExisting ==
    [][(DailyStep /\ strategy' # "new" /\ outfits # <<>>) =>
          LET n == Len(outfits)
              main == body'.mainOutfit
              alts == body'.alternatives
          IN /\ status' = 200
             /\ body'.source = "existing"
             /\ IsRecordOf(main, outfits)
             /\ Len(alts) = Min(2, n - 1)
             /\ \A i \in 1..Len(alts) :
                    /\ IsRecordOf(alts[i], outfits)
                    /\ alts[i].id # main.id
                    /\ \A j \in 1..Len(alts) : i # j => alts[i].id # alts[j].id]_vars

\* C13 witness: four saved outfits, the main outfit not the newest, two
\* alternatives
DailyExistingWitness ==
    /\ pc = "daily"
    /\ strategy = "existing"
    /\ status = 200
    /\ Len(outfits) = 4
    /\ body.source = "existing"
    /\ body.mainOutfit.id = outfits[2].id
    /\ Len(body.alternatives) = 2

\* C14: a daily request of strategy 'existing' that finds no saved outfit
\* calls the recommender for today, and its 200 response has source "new".
DailyFallThrough ==
    [][(DailyStep /\ strategy' = "existing" /\ outfits = <<>>) =>
          /\ recCalls' = Append(recCalls, <<Today>>)
          /\ status' = 200 => (body'.source = "new" /\ IsRecordOf(body'.mainOutfit, outfits'))]_vars

\* C14 witness: strategy 'existing', an empty table before the request, and a
\* generated outfit in the answer
DailyFallThroughWitness ==
    /\ pc = "daily"
    /\ strategy = "existing"
    /\ status = 200
    /\ recCalls = <<<<Today>>>>
    /\ Len(outfits) = 1
    /\ body.mainOutfit.id = outfits[1].id

\* C15: a daily request of strategy 'new' calls the recommender for one day;
\* when a record already holds the proposed item-set, the main outfit has that
\* record's id and nothing is inserted, otherwise one record is inserted and
\* the main outfit has its id; the alternatives are at most two records, none
\* of them the chosen one.
DailyNew ==
    [][(DailyStep /\ strategy' = "new") =>
          /\ recCalls' = Append(recCalls, <<Today>>)
          /\ status' = 200 =>
                LET S == ItemSet(results'[1].outfit)
                    old == {k \in 1..Len(outfits) : ItemSet(outfits[k].item_ids) = S}
                    main == body'.mainOutfit
                    alts == body'.alternatives
                IN /\ IF old # {}
                      THEN /\ outfits' = outfits
                           /\ \E k \in old : main.id = outfits[k].id
                      ELSE /\ main.id \notin RowIds(outfits)
                           /\ outfits' = <<[id |-> main.id,
                                            item_ids |-> results'[1].outfit]>> \o outfits
                   /\ Len(alts) <= 2
                   /\ \A i \in 1..Len(alts) :
                          IsRecordOf(alts[i], outfits') /\ alts[i].id # main.id]_vars

\* C16: a daily request that goes the way of 'new' with an empty wardrobe, or
\* whose recommender call fails, answers an error and no main outfit.
DailyErrors ==
    (/\ pc = "daily"
     /\ recCalls # <<>>
     /\ (wardrobe = {} \/ caught # NoError)) =>
        /\ status >= 400
        /\ "mainOutfit" \notin DOMAIN body

NonEmptyRecords == \A i \in 1..Len(outfits) : outfits[i].item_ids # <<>>

\* C19: no outfit snapshot a daily request reads beside a deletion holds a
\* record without item ids.
SnapshotNonEmpty == \A i \in 1..Len(snapshot) : snapshot[i].item_ids # <<>>

\* C20: a generation call whose own SELECT did not show the proposed item
\* set inserts a record for it whatever the table holds when the loop runs,
\* so that of two overlapping calls that propose one new set each inserts its
\* own record.
AcceptedRace ==
    [][\A p \in Procs :
          (gen[p].pc = "called" /\ gen'[p].pc = "done" /\ gen'[p].results # <<>>) =>
              LET day == gen'[p].results[1]
              IN (/\ normalizeItemIds(day.outfit) \notin DOMAIN gen[p].existingMap
                  /\ day.outfit # <<>>) =>
                     /\ day.outfitId = nextId
                     /\ outfits' = <<[id |-> nextId, item_ids |-> day.outfit]>> \o outfits]_vars

\* C20 witness: both calls are through, they proposed the same list, neither
\* had seen it, and the table holds a record of each
AcceptedRaceWitness ==
    /\ gen[1].pc = "done" /\ gen[2].pc = "done"
    /\ gen[1].results # <<>> /\ gen[2].results # <<>>
    /\ gen[1].results[1].outfit = gen[2].results[1].outfit
    /\ gen[1].results[1].outfitId # gen[2].results[1].outfitId
    /\ normalizeItemIds(gen[1].results[1].outfit) \notin DOMAIN gen[1].existingMap
    /\ normalizeItemIds(gen[2].results[1].outfit) \notin DOMAIN gen[2].existingMap
    /\ \E i, j \in 1..Len(outfits) :
           /\ outfits[i].id = gen[1].results[1].outfitId
           /\ outfits[j].id = gen[2].results[1].outfitId
           /\ normalizeItemIds(outfits[i].item_ids) = normalizeItemIds(outfits[j].item_ids)

\* The outfit ids a weekly request knows without another read of the table:
\* the rows of its snapshot and the outfits of the days it has resolved
KnownIds == RowIds(existingOutfits) \cup {responses[i].outfitId : i \in 1..Len(responses)}

\* C21: a weekly request decides from the one snapshot it read at its start:
\* the outfit id a generated day resolves to is a record of that snapshot, a
\* record of an earlier day of the request, or the record the step inserts,
\* whatever other requests have stored since.
SingleSnapshot ==
    [][(pc = "weekly" /\ pc' = "weekly" /\ recCalls' # recCalls /\ results' # <<>>) =>
          LET outfitId == results'[1].outfitId
          IN outfitId # NullId =>
                \/ outfitId \in KnownIds
                \/ /\ outfitId = nextId
                   /\ outfits' = <<[id |-> outfitId, item_ids |-> results'[1].outfit]>>
                                     \o outfits]_vars

\* C22: a recommend request without days makes no recommender call, and a
\* recommend request that makes none is answered 400 'days[] is required'
\* with no query sent to the database and the tables as they were.
ValidationFirst ==
    [][(pc = "idle" /\ pc' = "recommended") =>
          /\ \A i \in 1..Len(recCalls') : recCalls'[i] # <<>>
          /\ recCalls' = recCalls =>
                 /\ status' = 400
                 /\ body' = ErrorBody("days[] is required")
                 /\ ~queried'
                 /\ outfits' = outfits /\ nextId' = nextId /\ wardrobe' = wardrobe]_vars

\* C22 witness: a request rejected over a table that holds outfits
ValidationFirstWitness ==
    /\ pc = "recommended"
    /\ status = 400
    /\ ~queried
    /\ recCalls = <<>>
    /\ outfits # <<>>

\* The days of a response with other pointers
WithPointers(days, ptrs) ==
    [i \in 1..Len(days) |-> [days[i] EXCEPT !.use_existing_outfit_id = ptrs[i]]]

\* C23: the outfit ids and the inserts of a recommend request are those of
\* the same request with any other values of use_existing_outfit_id in the
\* response: the pointer decides nothing.
PointerIgnored ==
    [][(pc = "idle" /\ pc' = "recommended" /\ status' = 200) =>
          \E m \in ExistingMaps(outfits) :
              \A ptrs \in [1..Len(body'.raw) -> Pointers] :
                  generateStylistRecommendations(
                      outfits, nextId, m,
                      [kind |-> "json", days |-> WithPointers(body'.raw, ptrs)])
                  = [outfits |-> outfits', nextId |-> nextId', results |-> results']]_vars

\* C23 witness: a response with a day that carries no pointer and has outfit
\* 1, and a day that points at outfit 1 and gets the record the request
\* inserts for it
PointerIgnoredWitness ==
    /\ pc = "recommended"
    /\ status = 200
    /\ \E i, j \in 1..Len(results) :
           /\ body.raw[i].use_existing_outfit_id = NullId
           /\ results[i].outfitId = FirstId
           /\ body.raw[j].use_existing_outfit_id = FirstId
           /\ results[j].outfitId \notin {NullId, FirstId}
           /\ nextId = results[j].outfitId + 1
           /\ outfits[1] = [id |-> results[j].outfitId, item_ids |-> results[j].outfit]

\* The rows old are the last rows of new, unchanged
IsSuffix(old, new) ==
    /\ Len(new) >= Len(old)
    /\ SubSeq(new, Len(new) - Len(old) + 1, Len(new)) = old

\* C24: a step of a recommend, daily or weekly request leaves every record
\* of the outfits table in place with its item ids; what it adds are records
\* with new ids, and it leaves the wardrobe alone.
InsertOnly ==
    [][/\ IsSuffix(outfits, outfits')
       /\ \A k \in 1..(Len(outfits') - Len(outfits)) : outfits'[k].id \notin RowIds(outfits)
       /\ wardrobe' = wardrobe]_vars

\* C24 witness: a finished weekly plan that found records, took one of them
\* for a day and added a record for another day
InsertOnlyWitness ==
    /\ pc = "done"
    /\ existingOutfits # <<>>
    /\ Len(outfits) > Len(existingOutfits)
    /\ IsSuffix(existingOutfits, outfits)
    /\ \E i, j \in 1..Len(responses) :
           /\ responses[i].outfitId \in RowIds(existingOutfits)
           /\ responses[j].outfitId = outfits[1].id
           /\ responses[j].outfitId \notin RowIds(existingOutfits)

\* The ids of the tops, bottoms and dresses of an outfit
TopBottomDress(items) ==
    {items[i].id : i \in {j \in 1..Len(items) : items[j].type \in {"top", "bottom", "dress"}}}

\* An outfit of the pool that is unused and shares no top, bottom or dress
\* with the outfit of an earlier day, whatever else it shares
Unworn(outfit) ==
    /\ outfit.id \notin usedOutfitIds
    /\ \A i \in 1..Len(responses) :
           TopBottomDress(outfit.items) \cap TopBottomDress(responses[i].items) = {}

\* Categories of items that are not kept apart, and categories that the
\* table of mapBroadCategoryToType does not list
FlexibleCategories == {"outerwear", "Shoes", "shoes", "accessories", "underwear/sleepwear"}
UnknownCategories == {"hats", "jewellery", ""}

\* C25: strict match returns the first outfit of the pool that is unused
\* and shares no top, bottom or dress with the outfits of the earlier days,
\* and none when there is no such outfit; shared outerwear, shoes and
\* accessories, to which every unknown category maps, do not count.
FlexibleExempt ==
    /\ \A c \in FlexibleCategories :
           mapBroadCategoryToType(c) \in {"outerwear", "shoes", "accessory"}
    /\ \A c \in UnknownCategories : mapBroadCategoryToType(c) = "accessory"
    /\ (pc = "weekly" /\ dayIdx <= Len(dayEntries)) =>
           LET ok == {k \in 1..Len(available) : Unworn(available[k])}
           IN IF ok = {} THEN StrictPick = 0
              ELSE StrictPick = CHOOSE k \in ok : \A m \in ok : k <= m

\* C25 witness: a day resolved by strict match whose outfit shares an item,
\* the shoes, with the outfit of an earlier day
FlexibleExemptWitness ==
    \E i, j \in 1..Len(responses) :
        /\ i < j
        /\ responses[j].via = "strict"
        /\ \E a \in 1..Len(responses[i].items), b \in 1..Len(responses[j].items) :
               /\ responses[i].items[a].id = responses[j].items[b].id
               /\ responses[j].items[b].type = "shoes"

\* C26: a proposed list that is not empty, holds an id without a wardrobe
\* row and has a key no record had, is stored as a new record with exactly
\* the ids of the list, and the day gets the id of that record.
UnknownIdsPersisted ==
    [][(pc = "idle" /\ pc' = "recommended" /\ status' = 200) =>
          \A i \in 1..Len(results') :
              LET outfit == results'[i].outfit
              IN (/\ outfit # <<>>
                  /\ Range(outfit) \ wardrobe # {}
                  /\ normalizeItemIds(outfit) \notin RowKeys(outfits)) =>
                     /\ results'[i].outfitId \notin RowIds(outfits) \cup {NullId}
                     /\ \E k \in 1..Len(outfits') :
                            outfits'[k] = [id |-> results'[i].outfitId, item_ids |-> outfit]]_vars

\* C26 witness: the answer of a request that stored a record with the id
\* ghost1, which no wardrobe row has
UnknownIdsPersistedWitness ==
    /\ pc = "recommended"
    /\ status = 200
    /\ "ghost1" \notin wardrobe
    /\ \E i \in 1..Len(results), k \in 1..Len(outfits) :
           /\ outfits[k].id = results[i].outfitId
           /\ "ghost1" \in Range(outfits[k].item_ids)
           /\ outfits[k].id = nextId - 1

\* C27: in a weekly run no outfit of the pool is in the used set, so that
\* relaxed match finds nothing exactly when the pool is empty; once the
\* recommender has been called for a day the pool is empty, and every day
\* resolved after a generated day is a generated day.
PoolUnused ==
    pc \in {"weekly", "done", "failed"} =>
        /\ \A k \in 1..Len(available) : available[k].id \notin usedOutfitIds
        /\ (pc = "weekly" /\ dayIdx <= Len(dayEntries)) =>
               (RelaxedPick = 0 <=> available = <<>>)
        /\ recCalls # <<>> => available = <<>>
        /\ \A i, j \in 1..Len(responses) :
               (i < j /\ responses[i].via = "generated") => responses[j].via = "generated"

\* C27 witness: a finished plan over two outfits: a day by strict match, a
\* day by relaxed match, and with the pool empty a day by generation
PoolUnusedWitness ==
    /\ pc = "done"
    /\ Len(existingOutfits) = 2
    /\ available = <<>>
    /\ Len(responses) = 3
    /\ responses[1].via = "strict"
    /\ responses[2].via = "relaxed"
    /\ responses[3].via = "generated"

\* C28: a day that gets the outfit id of an earlier day of the run is not
\* resolved from the pool: it is a generated day, its step inserts nothing,
\* and the id is that of a record whose key is the key of the proposed list.
RepeatOnlyByDedup ==
    [][(/\ pc = "weekly"
        /\ Len(responses') = Len(responses) + 1
        /\ \E i \in 1..Len(responses) : responses[i].outfitId = Last(responses').outfitId) =>
          /\ Last(responses').via = "generated"
          /\ outfits' = outfits
          /\ \E k \in 1..Len(outfits) :
                 /\ outfits[k].id = Last(responses').outfitId
                 /\ normalizeItemIds(outfits[k].item_ids)
                        = normalizeItemIds(results'[1].outfit)]_vars

\* C28 witness: a finished plan whose two days from the pool have different
\* outfits and whose generated day has the outfit of the first day again
RepeatOnlyByDedupWitness ==
    /\ pc = "done"
    /\ Len(responses) = 3
    /\ responses[1].via \in {"strict", "relaxed"}
    /\ responses[2].via \in {"strict", "relaxed"}
    /\ responses[1].outfitId # responses[2].outfitId
    /\ responses[3].via = "generated"
    /\ responses[3].outfitId = responses[1].outfitId

Max(a, b) == IF a >= b THEN a ELSE b

\* C29: in a weekly run over d days and a snapshot of p outfits, the first
\* min(p, d) days processed are resolved from the pool and only the days
\* after them go to the recommender, one call for each; when p >= d the plan
\* has d entries, there is no recommender call and the table is as it was.
HistoryFirst ==
    pc \in {"weekly", "done", "failed"} =>
        LET p == Len(existingOutfits)
            d == Len(dayEntries)
            through == IF pc = "failed" THEN dayIdx ELSE dayIdx - 1
        IN /\ \A i \in 1..Len(responses) :
                  IF i <= Min(p, d)
                  THEN /\ responses[i].via \in {"strict", "relaxed"}
                       /\ responses[i].date = dayEntries[i].date
                  ELSE responses[i].via = "generated"
           /\ Len(responses) >= Min(p, dayIdx - 1)
           /\ Len(recCalls) = Max(0, through - p)
           /\ \A k \in 1..Len(recCalls) : recCalls[k] = <<dayEntries[p + k].date>>
           /\ (pc = "done" /\ p >= d) =>
                  /\ Len(responses) = d
                  /\ recCalls = <<>>
                  /\ outfits = existingOutfits

\* C29 witness: a finished plan of three days over one outfit: the first
\* day from the pool, a recommender call for each of the other two
HistoryFirstWitness ==
    /\ pc = "done"
    /\ Len(existingOutfits) = 1
    /\ Len(dayEntries) = 3
    /\ Len(recCalls) = 2
    /\ responses # <<>>
    /\ responses[1].via = "strict"
    /\ responses[1].outfitId = existingOutfits[1].id

\* C30: after a weekly request that an exception ended, the outfits table
\* holds the rows of the snapshot and the record of every day the request
\* had resolved by generation.
NoRollback ==
    pc = "failed" =>
        /\ IsSuffix(existingOutfits, outfits)
        /\ \A i \in 1..Len(responses) :
               responses[i].via = "generated" => responses[i].outfitId \in RowIds(outfits)

\* C30 witness: a request that the recommender's exception ended on a later
\* day, after a day for which it had inserted a record
NoRollbackWitness ==
    /\ pc = "failed"
    /\ caught \notin {NoError, StoreError}
    /\ Len(outfits) > Len(existingOutfits)
    /\ \E i \in 1..Len(responses) :
           /\ responses[i].via = "generated"
           /\ responses[i].outfitId \in RowIds(outfits) \ RowIds(existingOutfits)

====
